---- MODULE Spec2Model ----
(***************************************************************************)
(* GitHub Actions -> Discord notification relay.                           *)
(*                                                                         *)
(* Three variants of the handler live in the repository:                   *)
(*   "index"   src/index.js          raw http server, richest pipeline     *)
(*   "webhook" src/webhook.js        serverless handler(req, res)          *)
(*   "express" src/unnamed/part_000  express app with GitHub enrichment    *)
(*                                                                         *)
(* A string is modelled as [toks, n]: toks is its sequence of pieces and n  *)
(* its length in UTF-16 code units, which is what String.length, slice     *)
(* and the limits of Discord count.  A piece [t, c, n] is a template       *)
(* literal of the source or a datum of the input: t names it, c holds its  *)
(* characters where the code inspects them (toUpperCase), n is its length; *)
(* template literals carry the length they have in the source file.        *)
(***************************************************************************)
EXTENDS Integers, Sequences, FiniteSets, TLC

VARIABLES
    variant,        \* which handler serves the request
    req,            \* the inbound request: method, path, event header, body
    urlConfigured,  \* process.env.DISCORD_WEBHOOK_URL is set
    pc,             \* position of the handler (each await is a step)
    resStatus,      \* status written to the inbound response (0: none yet)
    responses,      \* number of responses written to the inbound request
    ghGets,         \* GitHub API GET requests issued
    posts,          \* Discord POST requests issued
    embed,          \* the message handed to the Discord notifier
    locals,         \* the handler's local variables
    tree,           \* branch walk: the repository tree and blob replies
    wpc,            \* branch walk: position in getFullBranchStats
    i,              \* branch walk: loop index of the batch loop
    inflight,       \* branch walk: blob fetches issued and not yet settled
    settled,        \* branch walk: blob fetches whose callback has run
    totalLOC,       \* branch walk: running sum
    totalFiles,     \* branch walk: blobs.length
    peak            \* branch walk: largest number of outstanding fetches seen

vars == <<variant, req, urlConfigured, pc, resStatus, responses, ghGets, posts,
          embed, locals, tree, wpc, i, inflight, settled, totalLOC, totalFiles,
          peak>>

(***************************************************************************)
(* Bounds of the model.                                                    *)
(***************************************************************************)
\* failed steps in the largest sampled job listing
ManySteps == 40
\* changed files in the largest sampled commit of the formatter check
MaxFiles == 21
\* entries in the largest sampled tree listing of the branch walk
MaxBlobs == 12

(***************************************************************************)
(* Program constants.                                                      *)
(***************************************************************************)
FieldValueLimit == 1024
MaxFields == 25
FieldMargin == 2
batchSize == 10
Green == 3066993
Red == 15158332
Gray == 9807270
IndexGreen == 3066993
IndexRed == 15158332

(***************************************************************************)
(* Text.                                                                   *)
(***************************************************************************)
Lit(s, n) == [t |-> s, c |-> <<>>, n |-> n]
Datum(s, n) == [t |-> s, c |-> <<>>, n |-> n]
Chars(cs) == [t |-> "chars", c |-> cs, n |-> Len(cs)]

RECURSIVE Digits(_)
Digits(k) == IF k < 10 THEN 1 ELSE 1 + Digits(k \div 10)

\* `${k}` for a non-negative integer
Num(k) == [t |-> ToString(k), c |-> <<>>, n |-> Digits(k)]

\* k.toLocaleString(): digits grouped by three
LocaleNum(k) == [t |-> ToString(k), c |-> <<>>,
                 n |-> Digits(k) + ((Digits(k) - 1) \div 3)]

RECURSIVE SumN(_)
SumN(toks) == IF toks = <<>> THEN 0 ELSE Head(toks).n + SumN(Tail(toks))

\* a template: its pieces in order
Text(toks) == [toks |-> toks, n |-> SumN(toks)]

Empty == [toks |-> <<>>, n |-> 0]

\* s.length
TextLen(s) == s.n

\* a + b
Cat(a, b) == [toks |-> a.toks \o b.toks, n |-> a.n + b.n]

\* texts.join(sep)
RECURSIVE JoinRange(_, _, _, _)
JoinRange(texts, sep, lo, hi) ==
    IF lo > hi THEN Empty
    ELSE IF lo = hi THEN texts[lo]
    ELSE LET mid == (lo + hi) \div 2
         IN  Cat(Cat(JoinRange(texts, sep, lo, mid), sep),
                 JoinRange(texts, sep, mid + 1, hi))

Join(texts, sep) == JoinRange(texts, sep, 1, Len(texts))

\* s.slice(0, k): s itself when it is short enough, else its first k units
Slice(s, k) ==
    IF s.n <= k THEN s
    ELSE [toks |-> <<[t |-> "slice", c |-> <<>>, n |-> k]>>, n |-> k]

NL == Text(<<Lit("\\n", 1)>>)

LowerCase == <<"a","b","c","d","e","f","g","h","i","j","k","l","m",
               "n","o","p","q","r","s","t","u","v","w","x","y","z">>
UpperCase == <<"A","B","C","D","E","F","G","H","I","J","K","L","M",
               "N","O","P","Q","R","S","T","U","V","W","X","Y","Z">>

toUpperChar(ch) ==
    IF \E k \in 1..26 : LowerCase[k] = ch
    THEN UpperCase[CHOOSE k \in 1..26 : LowerCase[k] = ch]
    ELSE ch

toUpperCase(cs) == [k \in 1..Len(cs) |-> toUpperChar(cs[k])]

(***************************************************************************)
(* JavaScript values of the inputs.                                        *)
(***************************************************************************)
StrSuccess == <<"s","u","c","c","e","s","s">>
StrFailure == <<"f","a","i","l","u","r","e">>
StrCancelled == <<"c","a","n","c","e","l","l","e","d">>
StrSkipped == <<"s","k","i","p","p","e","d">>
StrTimedOut == <<"t","i","m","e","d","_","o","u","t">>

\* workflow_run.conclusion: null while the run is in progress, else a string
NullConclusion == [isNull |-> TRUE, s |-> <<>>]
Str(cs) == [isNull |-> FALSE, s |-> cs]
Conclusions == {NullConclusion, Str(StrSuccess), Str(StrFailure),
                Str(StrCancelled), Str(StrSkipped), Str(StrTimedOut)}

\* The inbound body: text that is not JSON, the JSON value null, or an object
\* with or without workflow_run, workflow_run.actor, workflow_run.repository.
NoRun == [hasRun |-> FALSE, conclusion |-> NullConclusion,
          hasActor |-> FALSE, hasRepo |-> FALSE]
Payloads == {NoRun} \cup
    {p \in [hasRun : {TRUE}, conclusion : Conclusions,
             hasActor : BOOLEAN, hasRepo : BOOLEAN] : p.hasActor \/ p.hasRepo}
Bodies == {[parse |-> "malformed", payload |-> NoRun],
           [parse |-> "null", payload |-> NoRun]} \cup
          {[parse |-> "object", payload |-> p] : p \in Payloads}

Methods == {"POST", "GET"}
Paths == {"/webhook", "/"}
\* the X-GitHub-Event header; "absent" stands for a request without it
Events == {"workflow_run", "push", "absent"}
Variants == {"index", "webhook", "express"}

Requests == [method : Methods, path : Paths, event : Events, body : Bodies]

\* The data the templates interpolate from the payload.
WorkflowName == Datum("workflow_run.name", 8)
BranchName == Datum("workflow_run.head_branch", 4)
ActorLogin == Datum("workflow_run.actor.login", 6)
RunNumber == Datum("workflow_run.run_number", 2)

(***************************************************************************)
(* Replies of the GitHub API and of Discord.                               *)
(* net: the transport delivered a reply or failed; ok: status is 2xx;      *)
(* parse: what JSON.parse makes of the reply's text.                       *)
(***************************************************************************)
NetError(b) == [net |-> "error", ok |-> FALSE, parse |-> "malformed", body |-> b]
Http(ok, parse, b) == [net |-> "ok", ok |-> ok, parse |-> parse, body |-> b]

\* every way a fetch of a body of shape b can fail, b0 being the empty object
FailureReplies(b0) ==
    {NetError(b0), Http(FALSE, "object", b0), Http(FALSE, "malformed", b0),
     Http(TRUE, "malformed", b0), Http(TRUE, "null", b0), Http(TRUE, "object", b0)}

IsFailure(resp, b0) == resp \in FailureReplies(b0)

JobStep(name, n, conclusion) == [name |-> Datum(name, n), conclusion |-> conclusion]
Job(name, conclusion, hasSteps, steps) ==
    [name |-> Datum(name, 5), conclusion |-> conclusion,
     hasSteps |-> hasSteps, steps |-> steps]

NoJobs == [hasJobs |-> FALSE, jobs |-> <<>>]
JobsBodies ==
    {[hasJobs |-> TRUE, jobs |-> <<>>],
     [hasJobs |-> TRUE, jobs |-> <<Job("build", "success", TRUE,
                                      <<JobStep("compile", 7, "success")>>)>>],
     [hasJobs |-> TRUE, jobs |-> <<Job("build", "failure", TRUE,
                                      <<JobStep("compile", 7, "success"),
                                        JobStep("test", 4, "failure"),
                                        JobStep("upload", 6, "skipped")>>),
                                   Job("lint", "failure", TRUE,
                                      <<JobStep("eslint", 6, "failure")>>)>>],
     [hasJobs |-> TRUE, jobs |-> <<Job("build", "failure", TRUE,
                                      <<JobStep("compile", 7, "cancelled")>>)>>],
     [hasJobs |-> TRUE, jobs |-> <<Job("build", "failure", FALSE, <<>>)>>],
     [hasJobs |-> TRUE, jobs |-> <<Job("matrix", "failure", TRUE,
                  [k \in 1..ManySteps |-> JobStep("case", 30, "failure")])>>]}
JobsReplies == FailureReplies(NoJobs) \cup
               {Http(TRUE, "object", b) : b \in JobsBodies}

File(path, adds, dels, status) ==
    [hasFilename |-> TRUE, path |-> path, additions |-> adds,
     deletions |-> dels, changes |-> adds + dels, status |-> status]

NoCommit == [hasStats |-> FALSE, additions |-> 0, deletions |-> 0,
             hasFiles |-> FALSE, files |-> <<>>]
CommitBodies ==
    {[hasStats |-> TRUE, additions |-> 42, deletions |-> 7, hasFiles |-> TRUE,
      files |-> <<File(<<Datum("src", 3), Datum("a.js", 4)>>, 40, 7, "modified"),
                  File(<<Datum("README.md", 9)>>, 2, 0, "added")>>],
     [hasStats |-> TRUE, additions |-> 1200, deletions |-> 0, hasFiles |-> TRUE,
      files |-> <<>>],
     [hasStats |-> FALSE, additions |-> 0, deletions |-> 0, hasFiles |-> TRUE,
      files |-> <<File(<<Datum("gone.txt", 8)>>, 0, 3, "deleted")>>],
     [hasStats |-> TRUE, additions |-> 1, deletions |-> 1, hasFiles |-> TRUE,
      files |-> <<[File(<<>>, 1, 1, "renamed") EXCEPT !.hasFilename = FALSE]>>]}
CommitReplies == FailureReplies(NoCommit) \cup
                 {Http(TRUE, "object", b) : b \in CommitBodies}

\* Discord's answer to the POST
DiscordReplies == {"2xx", "non2xx", "error"}

(***************************************************************************)
(* src/index.js: enrichment.                                               *)
(***************************************************************************)
\* fetchJSON rejects on a transport error and on text that is not JSON; it
\* does not look at the status code.
FetchJSONRejects(resp) == resp.net = "error" \/ resp.parse = "malformed"

CouldNotRetrieve == Text(<<Lit("Could not retrieve job details.", 31)>>)

IsFailed(x) == x.conclusion = "failure"

FailedStepsText(job) ==
    LET failedSteps == SelectSeq(job.steps, IsFailed)
    IN  Join([k \in 1..Len(failedSteps) |->
                Text(<<Lit("    -> Step: **", 16), failedSteps[k].name, Lit("**", 2)>>)],
             NL)

JobText(job) ==
    Cat(Text(<<Lit("X **", 5), job.name, Lit("**\\n", 3)>>),
        IF TextLen(FailedStepsText(job)) > 0 THEN FailedStepsText(job)
        ELSE Text(<<Lit("    -> Unknown step", 20)>>))

\* the try block around the jobs fetch: the text, "" when no job failed, the
\* fallback when the fetch rejects or reading the reply throws
FailedJobsText(resp) ==
    IF FetchJSONRejects(resp) \/ resp.parse = "null" THEN CouldNotRetrieve
    ELSE LET jobs == IF resp.body.hasJobs THEN resp.body.jobs ELSE <<>>
             failedJobs == SelectSeq(jobs, IsFailed)
         IN  IF failedJobs = <<>> THEN Empty
             ELSE IF \E k \in 1..Len(failedJobs) : ~failedJobs[k].hasSteps
                  THEN CouldNotRetrieve
             ELSE Join([k \in 1..Len(failedJobs) |-> JobText(failedJobs[k])],
                       Text(<<Lit("\\n\\n", 2)>>))

\* f.filename.split("/").pop()
Basename(path) == path[Len(path)]

FileLine(f) ==
    Text(<<Lit("[bt]", 1), Basename(f.path), Lit("[bt] - +", 7), Num(f.additions),
           Lit(" / -", 4), Num(f.deletions), Lit(" (", 2), Num(f.changes),
           Lit(" changes)", 9)>>)

\* the try block around the commit fetch: what it leaves in locAdded,
\* filesChanged and fileLOCLines
CommitLocals(resp) ==
    IF FetchJSONRejects(resp) \/ resp.parse = "null"
    THEN [locAdded |-> 0, filesChanged |-> 0, fileLOCLines |-> <<>>]
    ELSE LET b == resp.body
             some == b.hasFiles /\ Len(b.files) > 0
             named == \A k \in 1..Len(b.files) : b.files[k].hasFilename
         IN  [locAdded |-> IF b.hasStats THEN b.additions ELSE 0,
              filesChanged |-> IF some THEN Len(b.files) ELSE 0,
              fileLOCLines |-> IF some /\ named
                               THEN [k \in 1..Len(b.files) |-> FileLine(b.files[k])]
                               ELSE <<>>]

(***************************************************************************)
(* src/index.js: the branch walk.  The content of a blob is kept as the     *)
(* bytes it decodes to: the base64 text is empty exactly when they are,    *)
(* and a newline is one byte in UTF-8: the walk reads nothing else of it.  *)
(***************************************************************************)
NoBlob == [encoding |-> "none", content |-> <<>>]
Blob(encoding, bytes) == [encoding |-> encoding, content |-> bytes]

\* content.split("\n").length
SplitLength(bytes) == 1 + Cardinality({k \in 1..Len(bytes) : bytes[k] = "\n"})

\* the body of batch.map's callback: what one blob adds to totalLOC
MutBlobContribution(reply) ==
    IF FetchJSONRejects(reply) \/ reply.parse = "null" THEN 0
    ELSE IF reply.body.encoding = "base64"
         THEN SplitLength(reply.body.content)
    ELSE 0

BlobContribution(reply) ==
    IF FetchJSONRejects(reply) \/ reply.parse = "null" THEN 0
    ELSE IF reply.body.encoding = "base64" /\ reply.body.content # <<>>
         THEN SplitLength(reply.body.content)
    ELSE 0

IsBlob(item) == item.type = "blob"

NoTree == [hasTree |-> FALSE, entries |-> <<>>]

\* (treeData.tree || []).filter(item => item.type === "blob")
BlobsOf(treeReply) ==
    IF treeReply.body.hasTree THEN SelectSeq(treeReply.body.entries, IsBlob)
    ELSE <<>>

\* the tree fetch, or reading its reply, throws out of getFullBranchStats
TreeThrows(treeReply) == FetchJSONRejects(treeReply) \/ treeReply.parse = "null"

RECURSIVE SumContributions(_)
SumContributions(blobs) ==
    IF blobs = <<>> THEN 0
    ELSE BlobContribution(Head(blobs).reply) + SumContributions(Tail(blobs))

\* getFullBranchStats run to its return
BranchStats(treeReply) ==
    [totalLOC |-> SumContributions(BlobsOf(treeReply)),
     totalFiles |-> Len(BlobsOf(treeReply))]

(***************************************************************************)
(* src/index.js: the formatter.                                            *)
(***************************************************************************)
Field(name, value, inline) == [name |-> name, value |-> value, inline |-> inline]

Min(a, b) == IF a < b THEN a ELSE b

\* status !== "success" && status !== null
Failed(status) == status # Str(StrSuccess) /\ ~status.isNull

IndexColor(status) == IF Failed(status) THEN IndexRed ELSE IndexGreen

StatusLabel(status) ==
    IF Failed(status)
    THEN Text(<<Lit("X FAILED (", 11), Chars(status.s), Lit(")", 1)>>)
    ELSE Text(<<Lit("V PASSED", 10)>>)

\* the for loop over fileLOCLines and the push that follows it
RECURSIVE ChunkLoop(_, _, _)
ChunkLoop(lines, chunks, current) ==
    IF lines = <<>>
    THEN IF TextLen(current) > 0 THEN Append(chunks, current) ELSE chunks
    ELSE LET line == Head(lines)
             next == IF TextLen(current) > 0 THEN Cat(Cat(current, NL), line) ELSE line
         IN  IF TextLen(next) > FieldValueLimit
             THEN ChunkLoop(Tail(lines), Append(chunks, current), line)
             ELSE ChunkLoop(Tail(lines), chunks, next)

Chunks(fileLOCLines) == ChunkLoop(fileLOCLines, <<>>, Empty)

BreakdownName(k) ==
    IF k = 1 THEN "File Breakdown (this commit)"
    ELSE "File Breakdown (cont. " \o ToString(k) \o ")"

\* chunks.slice(0, maxChunks).forEach(push), with `used` fields pushed so far
BreakdownFields(chunks, used) ==
    LET maxChunks == Min(Len(chunks), MaxFields - used - FieldMargin)
    IN  [k \in 1..maxChunks |-> Field(BreakdownName(k), chunks[k], FALSE)]

IndexFields(status, l) ==
    LET head == <<Field("Workflow",
                        Text(<<Lit("[bt]", 1), WorkflowName, Lit("[bt]", 1)>>), TRUE),
                  Field("Status", StatusLabel(status), TRUE)>>
        jobs == IF Failed(status) /\ TextLen(l.failedJobsText) > 0
                THEN <<Field("Failed Jobs & Steps",
                             Slice(l.failedJobsText, FieldValueLimit), FALSE)>>
                ELSE <<>>
        commit == <<Field("Lines Added (this commit)",
                          Text(<<Lit("**+", 3), LocaleNum(l.locAdded), Lit("** lines", 8)>>),
                          TRUE),
                    Field("Files Changed (this commit)",
                          Text(<<Lit("**", 2), Num(l.filesChanged), Lit("** file", 7)>> \o
                               (IF l.filesChanged # 1 THEN <<Lit("s", 1)>> ELSE <<>>)),
                          TRUE)>>
        before == head \o jobs \o commit
        breakdown == IF Len(l.fileLOCLines) > 0
                     THEN BreakdownFields(Chunks(l.fileLOCLines), Len(before))
                     ELSE <<>>
        totals == <<Field("Total Files in Branch",
                          Text(<<Lit("**", 2), LocaleNum(l.totalBranchFiles), Lit("** files", 8)>>),
                          TRUE),
                    Field("Total LOC in Branch",
                          Text(<<Lit("**", 2), LocaleNum(l.totalBranchLOC), Lit("** lines", 8)>>),
                          TRUE)>>
    IN  before \o breakdown \o totals

IndexEmbed(status, l) ==
    [title |-> IF Failed(status)
               THEN Text(<<Lit("GitHub Actions - Build Failed", 36)>>)
               ELSE Text(<<Lit("GitHub Actions - Build Passed", 35)>>),
     color |-> IndexColor(status),
     fields |-> IndexFields(status, l),
     footer |-> Text(<<Lit("Run #", 5), RunNumber>>)]

(***************************************************************************)
(* src/webhook.js and src/unnamed/part_000: status mapping and formatter.  *)
(***************************************************************************)
\* status.toUpperCase() on null throws a TypeError
ClassifyThrows(status) == status.isNull

\* a two-way mapping: whatever is not a success is a failure
MutClassify(status) ==
    IF status = Str(StrSuccess)
    THEN [color |-> Green, emoji |-> Lit("check", 1),
          statusText |-> Lit("BUILD SUCCESSFUL", 16)]
    ELSE [color |-> Red, emoji |-> Lit("cross", 1),
          statusText |-> Lit("BUILD FAILED", 12)]

Classify(status) ==
    IF status = Str(StrSuccess)
    THEN [color |-> Green, emoji |-> Lit("check", 1),
          statusText |-> Lit("BUILD SUCCESSFUL", 16)]
    ELSE IF status = Str(StrFailure)
    THEN [color |-> Red, emoji |-> Lit("cross", 1),
          statusText |-> Lit("BUILD FAILED", 12)]
    ELSE IF status = Str(StrCancelled)
    THEN [color |-> Gray, emoji |-> Lit("stop", 2),
          statusText |-> Lit("BUILD CANCELLED", 15)]
    ELSE [color |-> Gray, emoji |-> Lit("warning", 2),
          statusText |-> Chars(toUpperCase(status.s))]

StatusField(status) ==
    Field("Status",
          Text(<<Lit("**", 2), Classify(status).statusText, Lit("**", 2)>>), TRUE)

WebhookEmbed(status) ==
    [title |-> Text(<<Classify(status).emoji, Lit(" ", 1), WorkflowName>>),
     color |-> Classify(status).color,
     fields |-> <<StatusField(status),
                  Field("Branch", Text(<<BranchName>>), TRUE),
                  Field("Triggered by", Text(<<ActorLogin>>), FALSE)>>,
     footer |-> Text(<<Lit("GitHub Actions APK Builder", 26)>>)]

NullDetails == [isNull |-> TRUE, passed |-> 0, failed |-> 0,
                failedTests |-> <<>>, total |-> 0]
NullStats == [isNull |-> TRUE, additions |-> 0, deletions |-> 0, total |-> 0,
              filesAdded |-> 0, filesModified |-> 0, filesDeleted |-> 0,
              filesTotal |-> 0]

\* fetch(...) threw, the reply is not ok, or response.json() or reading it threw
FetchReturnsNull(resp) == resp.net = "error" \/ ~resp.ok \/ resp.parse # "object"

RECURSIVE AllSteps(_)
AllSteps(jobs) ==
    IF jobs = <<>> THEN <<>>
    ELSE (IF Head(jobs).hasSteps THEN Head(jobs).steps ELSE <<>>)
         \o AllSteps(Tail(jobs))

IsPassed(x) == x.conclusion = "success"

fetchCheckRunDetails(resp) ==
    IF FetchReturnsNull(resp) THEN NullDetails
    ELSE LET steps == AllSteps(IF resp.body.hasJobs THEN resp.body.jobs ELSE <<>>)
             passed == SelectSeq(steps, IsPassed)
             failed == SelectSeq(steps, IsFailed)
         IN  [isNull |-> FALSE, passed |-> Len(passed), failed |-> Len(failed),
              failedTests |-> [k \in 1..Len(failed) |-> failed[k].name],
              total |-> Len(passed) + Len(failed)]

CountStatus(files, status) ==
    Cardinality({k \in 1..Len(files) : files[k].status = status})

fetchCommitStats(resp) ==
    IF FetchReturnsNull(resp) THEN NullStats
    ELSE LET b == resp.body
             files == IF b.hasFiles THEN b.files ELSE <<>>
             adds == IF b.hasStats THEN b.additions ELSE 0
             dels == IF b.hasStats THEN b.deletions ELSE 0
         IN  [isNull |-> FALSE, additions |-> adds, deletions |-> dels,
              total |-> adds + dels,
              filesAdded |-> CountStatus(files, "added"),
              filesModified |-> CountStatus(files, "modified"),
              filesDeleted |-> CountStatus(files, "deleted"),
              filesTotal |-> Len(files)]

ExpressFields(status, checkDetails, commitStats) ==
    LET checks == IF ~checkDetails.isNull /\ checkDetails.total > 0
                  THEN <<Field("Checks",
                               Text(<<Lit("V ", 2), Num(checkDetails.passed), Lit(" / ", 3),
                                      Num(checkDetails.total), Lit(" checks passed", 14)>>),
                               FALSE)>> \o
                       (IF Len(checkDetails.failedTests) > 0
                        THEN <<Field("Failed Tests",
                                     Join([k \in 1..Len(checkDetails.failedTests) |->
                                             Text(<<Lit("X ", 2), checkDetails.failedTests[k]>>)],
                                          NL),
                                     FALSE)>>
                        ELSE <<>>)
                  ELSE <<>>
        commit == IF ~commitStats.isNull
                  THEN <<Field("Lines Changed",
                               Text(<<Lit("+ ", 2), Num(commitStats.additions),
                                      Lit(" additions\\n- ", 13), Num(commitStats.deletions),
                                      Lit(" deletions", 10)>>),
                               FALSE),
                         Field("Files Changed",
                               Text(<<Lit("page ", 3), Num(commitStats.filesAdded),
                                      Lit(" added\\npencil ", 10), Num(commitStats.filesModified),
                                      Lit(" modified\\nbin ", 14), Num(commitStats.filesDeleted),
                                      Lit(" deleted", 8)>>),
                               FALSE)>>
                  ELSE <<>>
    IN  <<StatusField(status)>> \o checks \o commit

ExpressEmbed(status, checkDetails, commitStats) ==
    [title |-> Text(<<Classify(status).emoji, Lit(" ", 1), WorkflowName>>),
     color |-> Classify(status).color,
     fields |-> ExpressFields(status, checkDetails, commitStats),
     footer |-> Text(<<Lit("GitHub Actions APK Builder", 26)>>)]

(***************************************************************************)
(* The handling of one inbound request.  Deliveries share no state, so     *)
(* one request at a time shows every behaviour.                            *)
(***************************************************************************)
NoEmbed == [title |-> Empty, color |-> 0, fields |-> <<>>, footer |-> Empty]

InitLocals ==
    [failedJobsText |-> Empty, locAdded |-> 0, filesChanged |-> 0,
     fileLOCLines |-> <<>>, totalBranchLOC |-> 0, totalBranchFiles |-> 0,
     checkDetails |-> NullDetails, commitStats |-> NullStats,
     absorbed |-> {}]

walkVars == <<tree, wpc, i, inflight, settled, totalLOC, totalFiles, peak>>

IdleTree == NetError(NoTree)

WalkIdle ==
    /\ tree = IdleTree /\ wpc = "idle" /\ i = 0 /\ inflight = {} /\ settled = {}
    /\ totalLOC = 0 /\ totalFiles = 0 /\ peak = 0

\* webhook.js is handed req.body by its host, already parsed
Deliverable(v, r) == v = "webhook" => r.body.parse # "malformed"

Init ==
    /\ variant \in Variants
    /\ req \in Requests
    /\ Deliverable(variant, req)
    /\ urlConfigured \in BOOLEAN
    /\ pc = "idle"
    /\ resStatus = 0 /\ responses = 0 /\ ghGets = 0 /\ posts = 0
    /\ embed = NoEmbed
    /\ locals = InitLocals
    /\ WalkIdle

payload == req.body.payload
status == payload.conclusion

\* one step of a handler: where it goes, the status it answers with (0: it
\* does not answer in this step), the requests it issues, what it leaves
Goto(npc, answer, gets, post, nembed, nlocals) ==
    /\ pc' = npc
    /\ resStatus' = IF answer = 0 THEN resStatus ELSE answer
    /\ responses' = IF answer = 0 THEN responses ELSE responses + 1
    /\ ghGets' = ghGets + gets
    /\ posts' = posts + post
    /\ embed' = nembed
    /\ locals' = nlocals
    /\ UNCHANGED <<variant, req, urlConfigured, walkVars>>

Answer(code) == Goto("done", code, 0, 0, embed, locals)

Absorb(l, name, failed) ==
    IF failed THEN [l EXCEPT !.absorbed = @ \cup {name}] ELSE l

(***************************************************************************)
(* src/index.js                                                            *)
(***************************************************************************)
\* the server callback up to its first await
IndexReceive ==
    /\ variant = "index" /\ pc = "idle"
    /\ IF req.method # "POST" THEN Answer(405)
       ELSE Goto("parseBody", 0, 0, 0, embed, locals)

\* sendDiscordEmbed up to the request: new URL(undefined) throws in the
\* executor, the promise rejects and the server callback answers 500
IndexSend(l, gets) ==
    IF urlConfigured
    THEN Goto("discord", 0, gets, 1, IndexEmbed(status, l), l)
    ELSE Goto("done", 500, gets, 0, IndexEmbed(status, l), l)

\* after the jobs block: the commit fetch when repoFullName && sha
IndexAfterJobs(l) ==
    IF payload.hasRepo THEN Goto("commit", 0, 1, 0, embed, l)
    ELSE IndexSend(l, 0)

\* parseBody settles; handleWorkflowRun runs to its first await
IndexParsed ==
    /\ variant = "index" /\ pc = "parseBody"
    /\ IF req.body.parse = "malformed" THEN Answer(500)
       ELSE IF req.event # "workflow_run" THEN Answer(200)
       ELSE IF req.body.parse = "null" THEN Answer(500)
       ELSE IF ~payload.hasRun THEN Answer(200)
       ELSE IF status.isNull THEN Answer(200)
       ELSE IF Failed(status) THEN Goto("jobs", 0, 1, 0, embed, locals)
       ELSE IndexAfterJobs(locals)

IndexJobsSettle ==
    /\ variant = "index" /\ pc = "jobs"
    /\ \E resp \in JobsReplies :
          IndexAfterJobs(Absorb([locals EXCEPT !.failedJobsText = FailedJobsText(resp)],
                                "jobs", IsFailure(resp, NoJobs)))

IndexCommitSettle ==
    /\ variant = "index" /\ pc = "commit"
    /\ \E resp \in CommitReplies :
          LET c == CommitLocals(resp)
          IN  Goto("branch", 0, 1, 0, embed,
                   Absorb([locals EXCEPT !.locAdded = c.locAdded,
                                         !.filesChanged = c.filesChanged,
                                         !.fileLOCLines = c.fileLOCLines],
                          "commit", IsFailure(resp, NoCommit)))

Entry(type, reply) == [type |-> type, reply |-> reply]

BlobFailures == FailureReplies(NoBlob)

SampleTree ==
    [hasTree |-> TRUE,
     entries |-> <<Entry("blob", Http(TRUE, "object", Blob("base64", <<"a", "\n", "b">>))),
                   Entry("tree", NetError(NoBlob)),
                   Entry("blob", NetError(NoBlob)),
                   Entry("blob", Http(TRUE, "object", Blob("base64", <<>>)))>>]
TreeReplies == FailureReplies(NoTree) \cup {Http(TRUE, "object", SampleTree)}

AnyBlobFailed(treeReply) ==
    \E k \in 1..Len(BlobsOf(treeReply)) : BlobsOf(treeReply)[k].reply \in BlobFailures

\* the try block around getFullBranchStats, run to its end: the tree fetch
\* was issued by the step before, the blob fetches are issued here
IndexBranchStats ==
    /\ variant = "index" /\ pc = "branch"
    /\ \E treeReply \in TreeReplies :
          IF TreeThrows(treeReply)
          THEN IndexSend(Absorb(locals, "tree", TRUE), 0)
          ELSE IndexSend(
                  Absorb(Absorb([locals EXCEPT
                                   !.totalBranchLOC = BranchStats(treeReply).totalLOC,
                                   !.totalBranchFiles = BranchStats(treeReply).totalFiles],
                                "tree", IsFailure(treeReply, NoTree)),
                         "blob", AnyBlobFailed(treeReply)),
                  Len(BlobsOf(treeReply)))

\* the POST settles: "end" resolves whatever the status, "error" rejects
IndexDiscordSettle ==
    /\ variant = "index" /\ pc = "discord"
    /\ \E reply \in DiscordReplies :
          Answer(IF reply = "error" THEN 500 ELSE 200)

(***************************************************************************)
(* src/webhook.js and src/unnamed/part_000: sendToDiscord.                 *)
(***************************************************************************)
\* sendToDiscord up to its fetch: returns when the URL is not configured,
\* throws when the status mapping does, else POSTs the message
SendToDiscord(message, l) ==
    IF ~urlConfigured THEN Goto("done", 200, 0, 0, embed, l)
    ELSE IF ClassifyThrows(status) THEN Goto("rejected", 0, 0, 0, embed, l)
    ELSE Goto("discord", 0, 0, 1, message, l)

\* the POST settles: both outcomes are caught or logged, the handler goes on
SendToDiscordSettle ==
    /\ variant \in {"webhook", "express"} /\ pc = "discord"
    /\ \E reply \in DiscordReplies : Answer(200)

(***************************************************************************)
(* src/webhook.js                                                          *)
(***************************************************************************)
\* payload.workflow_run, workflow.conclusion, workflow.actor.login
WebhookReadThrows ==
    req.body.parse = "null" \/ ~payload.hasRun \/ ~payload.hasActor

\* the handler without its event filter
MutWebhookReceive ==
    /\ variant = "webhook" /\ pc = "idle"
    /\ IF req.method # "POST" THEN Answer(405)
       ELSE IF WebhookReadThrows THEN Goto("rejected", 0, 0, 0, embed, locals)
       ELSE SendToDiscord(WebhookEmbed(status), locals)

WebhookReceive ==
    /\ variant = "webhook" /\ pc = "idle"
    /\ IF req.method # "POST" THEN Answer(405)
       ELSE IF req.event # "workflow_run" THEN Answer(200)
       ELSE IF WebhookReadThrows THEN Goto("rejected", 0, 0, 0, embed, locals)
       ELSE SendToDiscord(WebhookEmbed(status), locals)

(***************************************************************************)
(* src/unnamed/part_000                                                    *)
(***************************************************************************)
\* express.json() in its default strict mode: the body is an object or the
\* request is answered 400
ExpressJsonRejects == req.body.parse # "object"

\* payload.workflow_run, workflow.actor.login, workflow.repository.url
ExpressReadThrows == ~payload.hasRun \/ ~payload.hasActor \/ ~payload.hasRepo

\* the middleware, the routes, and the /webhook handler up to its first await
ExpressReceive ==
    /\ variant = "express" /\ pc = "idle"
    /\ IF ExpressJsonRejects THEN Answer(400)
       ELSE IF req.method = "GET" /\ req.path = "/" THEN Answer(200)
       ELSE IF ~(req.method = "POST" /\ req.path = "/webhook") THEN Answer(404)
       ELSE IF req.event # "workflow_run" THEN Answer(200)
       ELSE IF ExpressReadThrows THEN Goto("rejected", 0, 0, 0, embed, locals)
       ELSE Goto("jobs", 0, 1, 0, embed, locals)

ExpressJobsSettle ==
    /\ variant = "express" /\ pc = "jobs"
    /\ \E resp \in JobsReplies :
          Goto("commit", 0, 1, 0, embed,
               Absorb([locals EXCEPT !.checkDetails = fetchCheckRunDetails(resp)],
                      "jobs", IsFailure(resp, NoJobs)))

ExpressCommitSettle ==
    /\ variant = "express" /\ pc = "commit"
    /\ \E resp \in CommitReplies :
          LET l == Absorb([locals EXCEPT !.commitStats = fetchCommitStats(resp)],
                          "commit", IsFailure(resp, NoCommit))
          IN  SendToDiscord(ExpressEmbed(status, l.checkDetails, l.commitStats), l)

(***************************************************************************)
(* The hosts of the two handlers that have no try/catch of their own.      *)
(***************************************************************************)
\* the rejection of the handler's promise reaches a host that answers 500
HostAnswers500 ==
    /\ variant \in {"webhook", "express"} /\ pc = "rejected"
    /\ Answer(500)

\* express 4 does not observe the promise an async route handler returns:
\* nothing ever writes the response
ExpressLeavesUnanswered ==
    /\ variant = "express" /\ pc = "rejected"
    /\ Goto("unanswered", 0, 0, 0, embed, locals)

Next ==
    \/ IndexReceive
    \/ IndexParsed
    \/ IndexJobsSettle
    \/ IndexCommitSettle
    \/ IndexBranchStats
    \/ IndexDiscordSettle
    \/ WebhookReceive
    \/ ExpressReceive
    \/ ExpressJobsSettle
    \/ ExpressCommitSettle
    \/ SendToDiscordSettle
    \/ HostAnswers500
    \/ ExpressLeavesUnanswered

Spec == Init /\ [][Next]_vars

(***************************************************************************)
(* src/index.js: getFullBranchStats step by step.  The tree at a sha and   *)
(* the answer to each blob fetch are fixed when the walk starts; the       *)
(* order in which the fetches of a batch settle is not.                    *)
(***************************************************************************)
BlobKinds ==
    {Entry("blob", Http(TRUE, "object", Blob("base64", <<"a", "\n", "b", "\n", "c">>))),
     Entry("blob", Http(TRUE, "object", Blob("base64", <<"a">>))),
     Entry("blob", Http(TRUE, "object", Blob("base64", <<"a", "\n">>))),
     Entry("blob", Http(TRUE, "object", Blob("base64", <<>>))),
     Entry("blob", Http(TRUE, "object", Blob("utf-8", <<"a", "\n", "b">>))),
     Entry("tree", NetError(NoBlob))}
    \cup {Entry("blob", r) : r \in BlobFailures}

BaseKinds ==
    {Entry("blob", Http(TRUE, "object", Blob("base64", <<"a", "\n", "b", "\n", "c">>))),
     Entry("blob", NetError(NoBlob))}

\* listings of n entries, all of one kind but for the first or the last
Listings(n) ==
    {[k \in 1..n |-> IF k = p THEN q ELSE b] :
        b \in BaseKinds, q \in BlobKinds, p \in {1, n}}

WalkTrees ==
    {NetError(NoTree), Http(TRUE, "null", NoTree), Http(FALSE, "object", NoTree)} \cup
    {Http(TRUE, "object", [hasTree |-> TRUE, entries |-> e]) :
        e \in UNION {Listings(n) : n \in 0..MaxBlobs}}

blobs == BlobsOf(tree)

\* blobs.slice(i, i + batchSize), as positions in blobs
Batch(from) == {k \in 1..Len(blobs) : from < k /\ k <= from + batchSize}

Max(a, b) == IF a > b THEN a ELSE b

handlerVars == <<variant, req, urlConfigured, pc, resStatus, responses, ghGets,
                 posts, embed, locals>>

SampleDelivery(c) ==
    [method |-> "POST", path |-> "/webhook", event |-> "workflow_run",
     body |-> [parse |-> "object",
               payload |-> [hasRun |-> TRUE, conclusion |-> c,
                            hasActor |-> TRUE, hasRepo |-> TRUE]]]

HandlerAt(where, c) ==
    /\ variant = "index" /\ req = SampleDelivery(c) /\ urlConfigured = TRUE
    /\ pc = where /\ resStatus = 0 /\ responses = 0 /\ ghGets = 0 /\ posts = 0
    /\ embed = NoEmbed

WalkInit ==
    /\ HandlerAt("branch", Str(StrSuccess))
    /\ locals = InitLocals
    /\ tree \in WalkTrees
    /\ wpc = "tree" /\ i = 0 /\ inflight = {} /\ settled = {}
    /\ totalLOC = 0 /\ totalFiles = 0 /\ peak = 0

\* `for (...; i < blobs.length; ...)` at index `from`: issue the whole batch
\* and await it, or leave the loop and return
LoopAt(from) ==
    IF from < Len(blobs)
    THEN /\ inflight' = inflight \cup Batch(from)
         /\ peak' = Max(peak, Cardinality(inflight \cup Batch(from)))
         /\ wpc' = "await"
    ELSE /\ wpc' = "done"
         /\ UNCHANGED <<inflight, peak>>

\* the tree fetch settles
WalkTreeSettle ==
    /\ wpc = "tree"
    /\ IF TreeThrows(tree)
       THEN /\ wpc' = "threw"
            /\ UNCHANGED <<totalFiles, inflight, peak>>
       ELSE /\ totalFiles' = Len(blobs)
            /\ LoopAt(0)
    /\ UNCHANGED <<tree, i, settled, totalLOC, handlerVars>>

\* one blob fetch of the batch settles and its callback runs to its end
BlobSettle ==
    /\ wpc = "await"
    /\ \E k \in inflight :
          /\ totalLOC' = totalLOC + BlobContribution(blobs[k].reply)
          /\ inflight' = inflight \ {k}
          /\ settled' = settled \cup {k}
    /\ UNCHANGED <<tree, wpc, i, totalFiles, peak, handlerVars>>

\* Promise.all of a batch: resolved once every callback has returned
MutBatchSettled(batch) == batch \cap settled # {}

BatchSettled(batch) == batch \subseteq settled

\* the await of the batch returns: i += batchSize and the loop test
BatchDone ==
    /\ wpc = "await"
    /\ i < Len(blobs)
    /\ BatchSettled(Batch(i))
    /\ i' = i + batchSize
    /\ LoopAt(i + batchSize)
    /\ UNCHANGED <<tree, settled, totalLOC, totalFiles, handlerVars>>

WalkNext == WalkTreeSettle \/ BlobSettle \/ BatchDone

WalkSpec == WalkInit /\ [][WalkNext]_vars

(***************************************************************************)
(* src/index.js: the formatter applied to bounded enrichment results.      *)
(***************************************************************************)
\* basename lengths: a short name, one that fills half a field, one that
\* alone is longer than a field
NameLens == {8, 520, 1010}

NamedFile(k, len) ==
    File(<<Datum("src", 3), Datum("file" \o ToString(k), len)>>, k, 0, "modified")

\* commits of n files, all names of one length but for the first or the last
FileLists(n) ==
    {[k \in 1..n |-> NamedFile(k, IF k = p THEN odd ELSE len)] :
        len \in NameLens, odd \in NameLens, p \in {1, n}}

LongJobs ==
    Http(TRUE, "object",
         [hasJobs |-> TRUE,
          jobs |-> <<Job("matrix", "failure", TRUE,
                         [k \in 1..ManySteps |-> JobStep("case", 30, "failure")])>>])

FmtInit ==
    /\ \E c \in {Str(StrSuccess), Str(StrFailure)} : HandlerAt("format", c)
    /\ \E n \in 0..MaxFiles : \E files \in FileLists(n) :
       \E jobsReply \in {Http(TRUE, "object", NoJobs), NetError(NoJobs), LongJobs} :
          LET c == CommitLocals(Http(TRUE, "object",
                        [hasStats |-> TRUE, additions |-> 42, deletions |-> 0,
                         hasFiles |-> TRUE, files |-> files]))
          IN  locals = [InitLocals EXCEPT
                          !.failedJobsText = IF Failed(status)
                                             THEN FailedJobsText(jobsReply)
                                             ELSE Empty,
                          !.locAdded = c.locAdded,
                          !.filesChanged = c.filesChanged,
                          !.fileLOCLines = c.fileLOCLines]
    /\ WalkIdle

\* the field assembly of handleWorkflowRun
Format ==
    /\ pc = "format"
    /\ pc' = "formatted"
    /\ embed' = IndexEmbed(status, locals)
    /\ UNCHANGED <<variant, req, urlConfigured, resStatus, responses, ghGets,
                   posts, locals, walkVars>>

FmtNext == Format

FmtSpec == FmtInit /\ [][FmtNext]_vars

(***************************************************************************)
(* The claims.                                                             *)
(***************************************************************************)
\* the handling of the request has come to its end, answered or not
Ended == pc \in {"done", "unanswered"}

\* the request reaches the webhook route (only the express app has routes)
Routed == variant = "express" => req.path = "/webhook"

\* a workflow_run delivery as GitHub sends it
WorkflowRunDelivery ==
    /\ req.method = "POST" /\ Routed
    /\ req.event = "workflow_run"
    /\ req.body.parse = "object"
    /\ payload.hasRun /\ payload.hasActor /\ payload.hasRepo

CompletedDelivery == WorkflowRunDelivery /\ ~status.isNull

\* the listener of the variant hands the body on as a JSON value
BodyParses ==
    CASE variant = "index" -> req.body.parse # "malformed"
      [] variant = "webhook" -> TRUE
      [] variant = "express" -> req.body.parse = "object"

\* C1: a workflow_run delivery whose conclusion is null never leads to a
\* Discord POST and is answered 200, in every variant.
C1_PendingRunIgnored ==
    (WorkflowRunDelivery /\ status.isNull) =>
        (posts = 0 /\ (Ended => resStatus = 200))

\* C2 as stated: a POST whose event is not workflow_run is answered 200,
\* whatever its body, and no GitHub request and no Discord POST is issued.
C2_AnyBodyIgnored ==
    (req.method = "POST" /\ req.event # "workflow_run") =>
        (ghGets = 0 /\ posts = 0 /\ (Ended => resStatus = 200))

\* C2 amended: a POST whose event is not workflow_run never issues a GitHub
\* request or a Discord POST and never raises; it is answered 200 when it
\* reaches the webhook route with a body the listener parses, and 500
\* (index.js) or 400 (the express JSON middleware) when the body does not parse.
C2_OtherEventsIgnored ==
    (req.method = "POST" /\ req.event # "workflow_run") =>
        /\ ghGets = 0 /\ posts = 0
        /\ pc \notin {"rejected", "unanswered"}
        /\ (Ended /\ Routed /\ BodyParses) => resStatus = 200
        /\ (Ended /\ ~BodyParses) =>
              resStatus = IF variant = "index" THEN 500 ELSE 400

C2_Witness ==
    /\ pc = "done" /\ req.method = "POST" /\ req.event = "absent"
    /\ req.body.parse = "object" /\ payload.hasRun /\ ~status.isNull
    /\ urlConfigured /\ resStatus = 200 /\ responses = 1

\* C3: a completed workflow_run delivery is answered 200 whatever becomes
\* of the notification, and with no destination URL no POST is attempted.
C3_NotificationNeverFailsDelivery ==
    (CompletedDelivery /\ Ended) =>
        (resStatus = 200 /\ (~urlConfigured => posts = 0))

\* C4: with the destination configured, a completed delivery during which
\* GitHub fetches failed still issues exactly one Discord POST and is
\* answered 200.
C4_FetchFailuresAbsorbed ==
    (CompletedDelivery /\ urlConfigured /\ locals.absorbed # {} /\ Ended) =>
        (posts = 1 /\ resStatus = 200)

\* C5: every message handed to the notifier has at most 25 fields, each
\* with a value of at most 1024 characters.
C5_EmbedWithinLimits ==
    embed # NoEmbed =>
        /\ Len(embed.fields) <= MaxFields
        /\ \A k \in 1..Len(embed.fields) :
              TextLen(embed.fields[k].value) <= FieldValueLimit

\* C6, for the POST of a JSON object to the webhook route: the request
\* receives exactly one response, and its status is 200 or 500.
C6_EveryDeliveryAnswered ==
    (Ended /\ req.method = "POST" /\ Routed /\ req.body.parse = "object") =>
        (responses = 1 /\ resStatus \in {200, 500})

StrCancelledUpper == <<"C","A","N","C","E","L","L","E","D">>
StrSkippedUpper == <<"S","K","I","P","P","E","D">>
StrTimedOutUpper == <<"T","I","M","E","D","_","O","U","T">>

\* the text between the asterisks of the Status field of webhook.js and
\* part_000, and the colour with it
ThreeWay(color, label) ==
    /\ embed.color = color
    /\ embed.fields[1].name = "Status"
    /\ embed.fields[1].value.toks[2] = label

\* the Status field of index.js and the colour with it
TwoWay(color, value) ==
    /\ embed.color = color
    /\ embed.fields[2].name = "Status"
    /\ embed.fields[2].value = value

FailedLabel(cs) == Text(<<Lit("X FAILED (", 11), Chars(cs), Lit(")", 1)>>)

\* C7 as stated: in every variant success is green, failure red, cancelled
\* gray, and any other conclusion gray.
C7_ThreeWayEverywhere ==
    embed # NoEmbed =>
        embed.color = CASE status = Str(StrSuccess) -> 3066993
                        [] status = Str(StrFailure) -> 15158332
                        [] OTHER -> 9807270

\* C7 amended: webhook.js and part_000 map success to green 3066993 and
\* BUILD SUCCESSFUL, failure to red 15158332 and BUILD FAILED, cancelled to
\* gray 9807270 and BUILD CANCELLED, any other conclusion to gray with the
\* conclusion uppercased; index.js maps success to green and PASSED, and
\* every other conclusion, cancelled included, to red 15158332 and
\* FAILED (<conclusion as received>).
C7_StatusMapping ==
    embed # NoEmbed =>
        IF variant = "index"
        THEN CASE status = Str(StrSuccess) ->
                    TwoWay(3066993, Text(<<Lit("V PASSED", 10)>>))
               [] status = Str(StrFailure) ->
                    TwoWay(15158332, FailedLabel(StrFailure))
               [] status = Str(StrCancelled) ->
                    TwoWay(15158332, FailedLabel(StrCancelled))
               [] status = Str(StrSkipped) ->
                    TwoWay(15158332, FailedLabel(StrSkipped))
               [] status = Str(StrTimedOut) ->
                    TwoWay(15158332, FailedLabel(StrTimedOut))
        ELSE CASE status = Str(StrSuccess) ->
                    ThreeWay(3066993, Lit("BUILD SUCCESSFUL", 16))
               [] status = Str(StrFailure) ->
                    ThreeWay(15158332, Lit("BUILD FAILED", 12))
               [] status = Str(StrCancelled) ->
                    ThreeWay(9807270, Lit("BUILD CANCELLED", 15))
               [] status = Str(StrSkipped) ->
                    ThreeWay(9807270, Chars(StrSkippedUpper))
               [] status = Str(StrTimedOut) ->
                    ThreeWay(9807270, Chars(StrTimedOutUpper))

C7_Witness ==
    /\ embed # NoEmbed /\ variant = "index"
    /\ status = Str(StrCancelled) /\ embed.color = 15158332

\* the reply carries the blob: the transport, the status and the JSON are fine
Fetched(reply) == reply.net = "ok" /\ reply.ok /\ reply.parse = "object"

LineCount(bytes) == Cardinality({k \in 1..Len(bytes) : bytes[k] = "\n"}) + 1

listing == IF tree.body.hasTree THEN tree.body.entries ELSE <<>>
blobEntries == {k \in 1..Len(listing) : listing[k].type = "blob"}

\* the sum of the line counts of the entries in `counted`
RECURSIVE SumLines(_, _)
SumLines(counted, k) ==
    IF k = 0 THEN 0
    ELSE (IF k \in counted THEN LineCount(listing[k].reply.body.content) ELSE 0)
         + SumLines(counted, k - 1)

Base64Blobs ==
    {k \in blobEntries : Fetched(listing[k].reply)
                         /\ listing[k].reply.body.encoding = "base64"}

NonEmptyBase64Blobs == {k \in Base64Blobs : listing[k].reply.body.content # <<>>}

\* C8 as stated: the walk reports totalFiles = N and totalLOC = the sum of
\* the line counts of the successfully fetched base64 blobs.
C8_EveryBase64BlobCounted ==
    wpc = "done" =>
        /\ totalFiles = Cardinality(blobEntries)
        /\ totalLOC = SumLines(Base64Blobs, Len(listing))

\* C8 amended: for any tree listing, any failing blob fetches and any
\* completion order, the walk goes on until it returns, never throws, and
\* reports totalFiles = N and totalLOC = the sum of the line counts of the
\* successfully fetched base64 blobs whose content is not empty (an empty
\* blob, like a failed one, contributes 0).
C8_WalkTotals ==
    /\ ~TreeThrows(tree) => wpc # "threw"
    /\ wpc \in {"tree", "await"} => ENABLED WalkNext
    /\ wpc = "done" =>
          /\ totalFiles = Cardinality(blobEntries)
          /\ totalLOC = SumLines(NonEmptyBase64Blobs, Len(listing))

C8_Witness ==
    /\ wpc = "done" /\ totalFiles > batchSize /\ totalLOC > 0
    /\ \E k \in blobEntries : ~Fetched(listing[k].reply)
    /\ \E k \in blobEntries : Fetched(listing[k].reply)

\* the batch a blob belongs to
BatchOf(k) == (k - 1) \div batchSize

\* C9: at most 10 blob fetches are outstanding at any moment; a fetch is
\* issued only when every fetch of the earlier batches has settled; and
\* when the walk returns every blob fetch has been issued and has settled,
\* failing fetches cancelling none of them.
C9_BatchesSequential ==
    /\ Cardinality(inflight) <= batchSize
    /\ peak <= batchSize
    /\ inflight \cap settled = {}
    /\ \A k \in inflight \cup settled : \A j \in 1..Len(blobs) :
          BatchOf(j) < BatchOf(k) => j \in settled
    /\ wpc = "done" => settled = 1..Len(blobs)

C9_Witness ==
    /\ wpc = "await" /\ i = batchSize /\ inflight # {}
    /\ peak = batchSize
    /\ \E j \in settled : ~Fetched(blobs[j].reply)

(***************************************************************************)
(* The file breakdown.                                                     *)
(***************************************************************************)
IsBreakdown(f) == f.name \in {BreakdownName(k) : k \in 1..MaxFields}

breakdown == SelectSeq(embed.fields, IsBreakdown)

\* fields pushed before the breakdown
used == IF Failed(status) /\ TextLen(locals.failedJobsText) > 0 THEN 5 ELSE 4

budget == MaxFields - used - FieldMargin

values == [k \in 1..Len(breakdown) |-> breakdown[k].value]

linePrefix(m) == SubSeq(locals.fileLOCLines, 1, m)

\* the breakdown fields are chunks of whole lines, none empty, in order,
\* labelled in order, all of them when they fit the budget and the first
\* `budget` of them when they do not
BreakdownFaithful ==
    /\ \A k \in 1..Len(breakdown) :
          /\ TextLen(breakdown[k].value) > 0
          /\ breakdown[k].name = BreakdownName(k)
    /\ Len(breakdown) <= budget
    /\ \E m \in 0..Len(locals.fileLOCLines) :
          /\ Join(values, NL) = Join(linePrefix(m), NL)
          /\ Len(breakdown) < budget => m = Len(locals.fileLOCLines)

\* C10: for any list of breakdown lines the breakdown fields, joined with
\* newlines, are the lines in commit order, or the prefix of them held by
\* the first 25 - used - 2 chunks; no chunk is empty; the first field is
\* the breakdown and the later ones numbered continuations.
C10_BreakdownFaithful ==
    pc = "formatted" => BreakdownFaithful

\* what holds of the breakdown: the same, for lines of at most 1024 characters
BreakdownOfShortLines ==
    (pc = "formatted"
     /\ \A k \in 1..Len(locals.fileLOCLines) :
           TextLen(locals.fileLOCLines[k]) <= FieldValueLimit)
    => (BreakdownFaithful
        /\ \A k \in 1..Len(embed.fields) :
              TextLen(embed.fields[k].value) <= FieldValueLimit)

\* what holds of the field count of index.js: never more than 25
FieldCountWithinLimit == Len(embed.fields) <= MaxFields

====
